---------------------------- MODULE Spec2Model ----------------------------
(***************************************************************************)
(* A model of the cgroup library (src/src/lib.rs): the placement resolver  *)
(* get_controllers, the handle CGroup with its factory controller(), the   *)
(* enumeration path_cache, and the attribute accessor Controller::get.     *)
(*                                                                         *)
(* Byte strings are sequences of atoms.  An atom is either one of the      *)
(* delimiter bytes ":", ",", "/", "\n" or a run of other bytes written as  *)
(* one TLA+ string ("memory", "u", "7").  No atom is "." or "..".          *)
(***************************************************************************)
EXTENDS Integers, Sequences, FiniteSets, TLC

VARIABLES
    contents,      \* the bytes of /proc/<pid>/cgroup
    handle,        \* result of CGroup::from_base_and_pid
    fs,            \* the cgroup filesystem: directory -> [exists, ls]
    view,          \* result of CGroup::controller
    asked,         \* the name controller() was last called with
    pc,            \* position inside Controller::get
    key,           \* the key of the get in progress / last finished
    ret,           \* what the last finished get returned
    sawExists,     \* what p.exists() stat'ed in the last get
    sawIsFile,     \* what p.is_file() stat'ed in the last get
    sawRead,       \* what File::open(p) found in the last get
    wasCached,     \* whether key was in the cache when the last get started
    hadFailure,    \* whether an earlier get on the view returned a failure
    enumerations,  \* number of readdir calls made so far
    fsChanges      \* number of filesystem changes made by others so far

vars == <<contents, handle, fs, view, asked, pc, key, ret, sawExists, sawIsFile,
          sawRead, wasCached, hadFailure, enumerations, fsChanges>>

-----------------------------------------------------------------------------
(* Bounds *)

\* longest procfs file, in lines
MaxLines == 3
\* number of filesystem changes by the kernel or other processes
MaxFsChanges == 3

-----------------------------------------------------------------------------
(* Byte strings *)

\* str::split(sep): the pieces between separators; always at least one piece
RECURSIVE Split(_, _)
Split(s, sep) ==
    IF \A i \in 1..Len(s) : s[i] /= sep
    THEN <<s>>
    ELSE LET i == CHOOSE j \in 1..Len(s) :
                      s[j] = sep /\ \A h \in 1..(j - 1) : s[h] /= sep
         IN  <<SubSeq(s, 1, i - 1)>> \o Split(SubSeq(s, i + 1, Len(s)), sep)

\* str::lines(): split on "\n", without the empty piece after a final "\n"
Lines(s) ==
    LET ps == Split(s, "\n")
    IN  IF ps[Len(ps)] = <<>> THEN SubSeq(ps, 1, Len(ps) - 1) ELSE ps

\* s1 "\n" s2 "\n" ... : a file made of the given lines
RECURSIVE Unlines(_)
Unlines(ls) ==
    IF ls = <<>> THEN <<>> ELSE ls[1] \o <<"\n">> \o Unlines(Tail(ls))

RECURSIVE SelectNonEmpty(_)
SelectNonEmpty(ps) ==
    IF ps = <<>> THEN <<>>
    ELSE (IF ps[1] = <<>> THEN <<>> ELSE <<ps[1]>>) \o SelectNonEmpty(Tail(ps))

-----------------------------------------------------------------------------
(* Paths (std::path::Path, posix): absolute or not, and normalized         *)
(* components.                                                             *)

\* Path::new(bytes): split on "/", drop empty components
PathNew(bs) ==
    [abs |-> (bs /= <<>> /\ bs[1] = "/"), comps |-> SelectNonEmpty(Split(bs, "/"))]

\* Path::push(other): an absolute argument replaces the path
PathPush(p, q) ==
    IF q.abs THEN q ELSE [abs |-> p.abs, comps |-> p.comps \o q.comps]

\* Path::join(bytes)
PathJoin(p, bs) == PathPush(p, PathNew(bs))

\* Path::filename()
Filename(p) == p.comps[Len(p.comps)]

\* Path::dir_path()
DirPath(p) == [abs |-> p.abs, comps |-> SubSeq(p.comps, 1, Len(p.comps) - 1)]

Root == PathNew(<<"/">>)

\* Path::path_relative_from(&Path::new("/")): None for a relative path
NoPath == [some |-> FALSE, path |-> Root]
PathRelativeFromRoot(c) ==
    IF c.abs THEN [some |-> TRUE, path |-> [abs |-> FALSE, comps |-> c.comps]]
    ELSE NoPath

-----------------------------------------------------------------------------
(* HashMap<Vec<u8>, Path> as a set of [k, v] records with unique keys *)

Keys(m) == {e.k : e \in m}
HasKey(m, k) == k \in Keys(m)
Find(m, k) == (CHOOSE e \in m : e.k = k).v
\* HashMap::insert: replaces the value of a key already present
Insert(m, k, v) == {e \in m : e.k /= k} \cup {[k |-> k, v |-> v]}

-----------------------------------------------------------------------------
(* get_controllers *)

\* one iteration of the loop over lines: the map after the line, or a panic
ParseLine(acc, line) ==
    LET columns == Split(line, ":")
    IN  IF acc.state = "panic" THEN acc
        ELSE IF Len(columns) < 2 THEN [state |-> "panic", map |-> {}]
        ELSE IF Len(columns) < 3 THEN [state |-> "panic", map |-> {}]
        ELSE [state |-> "ok",
              map |-> Insert(acc.map, columns[2], PathNew(columns[3]))]

RECURSIVE ParseLines(_, _)
ParseLines(acc, ls) ==
    IF ls = <<>> THEN acc ELSE ParseLines(ParseLine(acc, ls[1]), Tail(ls))

get_controllers(bytes) == ParseLines([state |-> "ok", map |-> {}], Lines(bytes))

-----------------------------------------------------------------------------
(* The filesystem under the base path.  fs maps each directory of          *)
(* DirUniverse to [exists, ls]; ls is the directory's entries in readdir   *)
(* order, each [name, kind, readable, data].                               *)

\* CGroup::new: the conventional mount root
Basepath == PathNew(<<"/", "sys", "/", "fs", "/", "cgroup">>)

MemoryDir == PathJoin(PathJoin(Basepath, <<"memory">>), <<"u">>)
ComountDir == PathJoin(Basepath, <<"cpu", ",", "cpuacct">>)
DevicesDir == PathJoin(PathJoin(Basepath, <<"devices">>), <<"a">>)
CpuRelDir == PathJoin(PathJoin(Basepath, <<"cpu">>), <<"rel">>)
DirUniverse == {MemoryDir, ComountDir, DevicesDir, CpuRelDir}

EntryNames == {<<"k1">>, <<"k2">>}
Data == {"v1", "v2"}

DirEntry(n) == [name |-> n, kind |-> "dir", readable |-> FALSE, data |-> ""]
FileEntry(n, r, v) == [name |-> n, kind |-> "file", readable |-> r, data |-> v]
NoEntry == [name |-> <<>>, kind |-> "none", readable |-> FALSE, data |-> ""]
Unset == [name |-> <<>>, kind |-> "unset", readable |-> FALSE, data |-> ""]

AllEntries ==
    {DirEntry(n) : n \in EntryNames}
        \cup {FileEntry(n, r, v) : n \in EntryNames, r \in BOOLEAN, v \in Data}
InitEntries ==
    {DirEntry(n) : n \in EntryNames}
        \cup {FileEntry(n, r, "v1") : n \in EntryNames, r \in BOOLEAN}

SeqsUpTo(S, n) == UNION {[1..m -> S] : m \in 0..n}
DistinctNames(l) == \A i, j \in 1..Len(l) : l[i].name = l[j].name => i = j
InitListings ==
    {l \in SeqsUpTo(InitEntries, Cardinality(EntryNames)) : DistinctNames(l)}

Missing == [exists |-> FALSE, ls |-> <<>>]
EmptyFs == [d \in DirUniverse |-> Missing]

\* stat(p): the entry at p, or NoEntry
Lookup(fsys, p) ==
    IF p.comps = <<>> THEN NoEntry
    ELSE LET d == DirPath(p)
             n == Filename(p)
         IN  IF d \in DOMAIN fsys /\ fsys[d].exists
                /\ \E i \in 1..Len(fsys[d].ls) : fsys[d].ls[i].name = n
             THEN fsys[d].ls[CHOOSE i \in 1..Len(fsys[d].ls) : fsys[d].ls[i].name = n]
             ELSE NoEntry

\* PathExtensions::exists / is_file
Exists(e) == e.kind /= "none"
IsFile(e) == e.kind = "file"

-----------------------------------------------------------------------------
(* path_cache *)

\* (mutant) readdir yielding bare entry names
ReaddirPath_relative(dir, name) == PathNew(name)

\* the path readdir yields for an entry: the directory joined with its name
ReaddirPath(dir, name) == PathJoin(dir, name)

\* the loop over the entries: stops at the first entry that is no regular file
RECURSIVE PathCacheLoop(_, _, _)
PathCacheLoop(map, dir, entries) ==
    IF entries = <<>> THEN map
    ELSE IF ~IsFile(entries[1]) THEN map
    ELSE LET path == ReaddirPath(dir, entries[1].name)
         IN  PathCacheLoop(Insert(map, Filename(path), path), dir, Tail(entries))

path_cache(fsys, p) ==
    IF p \in DOMAIN fsys /\ fsys[p].exists
    THEN [ok |-> TRUE, map |-> PathCacheLoop({}, p, fsys[p].ls)]
    ELSE [ok |-> FALSE, map |-> {}]

-----------------------------------------------------------------------------
(* CGroup *)

NoHandle == [state |-> "none", controllers |-> {}]
NoView == [state |-> "none", path |-> Root, cache |-> {}]

from_base_and_pid(bytes) ==
    LET conts == get_controllers(bytes)
    IN  [state |-> conts.state, controllers |-> conts.map]

\* CGroup::controller: "some" (a view), "absent" (None) or "panic"
controller(h, fsys, name) ==
    LET p0 == PathJoin(Basepath, name)
    IN  IF ~HasKey(h.controllers, name)
        THEN [state |-> "absent", path |-> Root, cache |-> {}]
        ELSE LET rel == PathRelativeFromRoot(Find(h.controllers, name))
             IN  IF ~rel.some
                 THEN [state |-> "panic", path |-> Root, cache |-> {}]
                 ELSE LET p == PathPush(p0, rel.path)
                          cache == path_cache(fsys, p)
                      IN  IF cache.ok
                          THEN [state |-> "some", path |-> p, cache |-> cache.map]
                          ELSE [state |-> "absent", path |-> Root, cache |-> {}]

\* whether controller(name) gets as far as calling readdir
Enumerates(h, name) ==
    HasKey(h.controllers, name) /\ PathRelativeFromRoot(Find(h.controllers, name)).some

-----------------------------------------------------------------------------
(* Controller::get *)

NoRet == [kind |-> "none", data |-> ""]
Absent == [kind |-> "absent", data |-> ""]
Failure == [kind |-> "err", data |-> ""]
Success(v) == [kind |-> "ok", data |-> v]

\* (mutant) the key pushed onto the view's own path
ViewAfterGet_pushes(v, k) ==
    IF ~HasKey(v.cache, k)
    THEN [v EXCEPT !.path = PathJoin(v.path, k),
                   !.cache = Insert(v.cache, k, PathJoin(v.path, k))]
    ELSE v

\* (mutant) a miss replaces the cache instead of extending it
ViewAfterGet_resets(v, k) ==
    IF ~HasKey(v.cache, k)
    THEN [v EXCEPT !.cache = {[k |-> k, v |-> PathJoin(v.path, k)]}]
    ELSE v

\* lines 101-103: the optimistic insert
ViewAfterGet(v, k) ==
    IF ~HasKey(v.cache, k)
    THEN [v EXCEPT !.cache = Insert(v.cache, k, PathJoin(v.path, k))]
    ELSE v

\* (mutant) a failed read answered with a value
ReadToString_stale(e) ==
    IF e.kind = "file" /\ e.readable THEN Success(e.data) ELSE Success("v1")

\* File::open(p).read_to_string()
ReadToString(e) ==
    IF e.kind = "file" /\ e.readable THEN Success(e.data) ELSE Failure

\* a get that no filesystem change interrupts
GetAtomic(v, fsys, k) ==
    LET e == Lookup(fsys, Find(ViewAfterGet(v, k).cache, k))
    IN  IF ~Exists(e) /\ ~IsFile(e) THEN Absent ELSE ReadToString(e)

-----------------------------------------------------------------------------
(* Actions of the library *)

FromBaseAndPid ==
    /\ handle.state = "none"
    /\ handle' = from_base_and_pid(contents)
    /\ UNCHANGED <<contents, fs, view, asked, pc, key, ret, sawExists, sawIsFile,
                   sawRead, wasCached, hadFailure, enumerations, fsChanges>>

ControllerCall(name) ==
    /\ handle.state = "ok"
    /\ view.state = "none"
    /\ view' = controller(handle, fs, name)
    /\ asked' = name
    /\ enumerations' = IF Enumerates(handle, name) THEN enumerations + 1
                       ELSE enumerations
    /\ UNCHANGED <<contents, handle, fs, pc, key, ret, sawExists, sawIsFile,
                   sawRead, wasCached, hadFailure, fsChanges>>

\* lines 100-106: enter get, insert the key if missing, look the path up
GetBegin(k) ==
    /\ view.state = "some"
    /\ pc = "idle"
    /\ view' = ViewAfterGet(view, k)
    /\ key' = k
    /\ wasCached' = HasKey(view.cache, k)
    /\ hadFailure' = (hadFailure \/ ret.kind = "err")
    /\ ret' = NoRet
    /\ sawExists' = "unset"
    /\ sawIsFile' = "unset"
    /\ sawRead' = Unset
    /\ pc' = "exists"
    /\ UNCHANGED <<contents, handle, fs, asked, enumerations, fsChanges>>

\* line 108, left operand: !p.exists()
GetExists ==
    /\ pc = "exists"
    /\ LET e == Lookup(fs, Find(view.cache, key))
       IN  /\ sawExists' = e.kind
           /\ pc' = IF Exists(e) THEN "read" ELSE "is_file"
    /\ UNCHANGED <<contents, handle, fs, view, asked, key, ret, sawIsFile, sawRead,
                   wasCached, hadFailure, enumerations, fsChanges>>

\* line 108, right operand: !p.is_file(); line 109: return None
GetIsFile ==
    /\ pc = "is_file"
    /\ LET e == Lookup(fs, Find(view.cache, key))
       IN  /\ sawIsFile' = e.kind
           /\ IF IsFile(e)
              THEN pc' = "read" /\ ret' = ret
              ELSE pc' = "idle" /\ ret' = Absent
    /\ UNCHANGED <<contents, handle, fs, view, asked, key, sawExists, sawRead,
                   wasCached, hadFailure, enumerations, fsChanges>>

\* line 113
GetRead ==
    /\ pc = "read"
    /\ LET e == Lookup(fs, Find(view.cache, key))
       IN  /\ sawRead' = e
           /\ ret' = ReadToString(e)
    /\ pc' = "idle"
    /\ UNCHANGED <<contents, handle, fs, view, asked, key, sawExists, sawIsFile,
                   wasCached, hadFailure, enumerations, fsChanges>>

-----------------------------------------------------------------------------
(* Actions of the kernel and of other processes on the filesystem *)

RemoveAt(l, i) == SubSeq(l, 1, i - 1) \o SubSeq(l, i + 1, Len(l))
InsertAt(l, i, e) == SubSeq(l, 1, i - 1) \o <<e>> \o SubSeq(l, i, Len(l))

FsStep(d, new) ==
    /\ fsChanges < MaxFsChanges
    /\ fsChanges' = fsChanges + 1
    /\ fs' = [fs EXCEPT ![d] = new]
    /\ UNCHANGED <<contents, handle, view, asked, pc, key, ret, sawExists,
                   sawIsFile, sawRead, wasCached, hadFailure, enumerations>>

KUnlink(d, i) ==
    /\ fs[d].exists /\ i \in 1..Len(fs[d].ls)
    /\ FsStep(d, [fs[d] EXCEPT !.ls = RemoveAt(fs[d].ls, i)])

KCreate(d, e, i) ==
    /\ fs[d].exists /\ i \in 1..(Len(fs[d].ls) + 1)
    /\ \A j \in 1..Len(fs[d].ls) : fs[d].ls[j].name /= e.name
    /\ FsStep(d, [fs[d] EXCEPT !.ls = InsertAt(fs[d].ls, i, e)])

KChmod(d, i) ==
    /\ fs[d].exists /\ i \in 1..Len(fs[d].ls)
    /\ fs[d].ls[i].kind = "file"
    /\ FsStep(d, [fs[d] EXCEPT !.ls[i].readable = ~fs[d].ls[i].readable])

KWrite(d, i, v) ==
    /\ fs[d].exists /\ i \in 1..Len(fs[d].ls)
    /\ fs[d].ls[i].kind = "file" /\ fs[d].ls[i].data /= v
    /\ FsStep(d, [fs[d] EXCEPT !.ls[i].data = v])

KRmdir(d) ==
    /\ fs[d].exists
    /\ FsStep(d, Missing)

KMkdir(d) ==
    /\ ~fs[d].exists
    /\ FsStep(d, [exists |-> TRUE, ls |-> <<>>])

-----------------------------------------------------------------------------
(* Specifications *)

Idle ==
    /\ handle = NoHandle /\ view = NoView /\ asked = <<>>
    /\ pc = "idle" /\ key = <<>> /\ ret = NoRet
    /\ sawExists = "unset" /\ sawIsFile = "unset" /\ sawRead = Unset
    /\ wasCached = FALSE /\ hadFailure = FALSE
    /\ enumerations = 0 /\ fsChanges = 0

\* lines of /proc/<pid>/cgroup
LineMemory == <<"5", ":", "memory", ":", "/", "u">>
LineComount == <<"3", ":", "cpu", ",", "cpuacct", ":", "/">>
LineColon == <<"7", ":", "devices", ":", "/", "a", ":", "b", "/", "c">>
LineUnified == <<"0", ":", ":", "/", "u">>
LineRelative == <<"2", ":", "cpu", ":", "rel">>
LineTwoColumns == <<"1", ":", "cpu">>
LineOneColumn == <<"garbage">>
LineEmpty == <<>>
ProcLines == {LineMemory, LineComount, LineColon, LineUnified, LineRelative,
              LineTwoColumns, LineOneColumn, LineEmpty}

(* the resolver alone, on files of up to MaxLines lines *)
InitParse ==
    /\ contents \in {Unlines(ls) : ls \in SeqsUpTo(ProcLines, MaxLines)}
    /\ fs = EmptyFs
    /\ Idle
SpecParse == InitParse /\ [][FromBaseAndPid]_vars

(* the handle: one-line procfs files, at most one directory present at      *)
(* first; directories come and go until controller() is called             *)
AskNames == {<<"memory">>, <<"cpu">>, <<"cpuacct">>, <<"cpu", ",", "cpuacct">>,
             <<"devices">>, <<"blkio">>}
HandleFiles == {Unlines(<<l>>) : l \in {LineMemory, LineComount, LineColon, LineRelative}}
InitHandle ==
    /\ contents \in HandleFiles
    /\ fs \in {EmptyFs} \cup
              {[EmptyFs EXCEPT ![d] = [exists |-> TRUE, ls |-> l]] :
                   d \in DirUniverse, l \in InitListings}
    /\ Idle
NextHandle ==
    \/ FromBaseAndPid
    \/ \E n \in AskNames : ControllerCall(n)
    \/ \E d \in DirUniverse : view.state = "none" /\ KMkdir(d)
    \/ \E d \in DirUniverse : view.state = "none" /\ KRmdir(d)
SpecHandle == InitHandle /\ [][NextHandle]_vars

(* the view of the memory controller, with the filesystem changing under it *)
\* the keys callers ask for: the names that may be on disk and one that never is
GetKeys == EntryNames \cup {<<"does.not.exist">>}
Observed == IF view.state = "some" THEN {view.path} ELSE {}
Init ==
    /\ contents = Unlines(<<LineMemory>>)
    /\ fs \in {[EmptyFs EXCEPT ![MemoryDir] = [exists |-> TRUE, ls |-> l]] :
                   l \in InitListings}
    /\ Idle
Next ==
    \/ FromBaseAndPid
    \/ ControllerCall(<<"memory">>)
    \/ \E k \in GetKeys : GetBegin(k)
    \/ GetExists
    \/ GetIsFile
    \/ GetRead
    \/ \E d \in Observed, i \in 1..Cardinality(EntryNames) : KUnlink(d, i)
    \/ \E d \in Observed, e \in AllEntries, i \in 1..Cardinality(EntryNames) :
           KCreate(d, e, i)
    \/ \E d \in Observed, i \in 1..Cardinality(EntryNames) : KChmod(d, i)
    \/ \E d \in Observed, i \in 1..Cardinality(EntryNames), v \in Data :
           KWrite(d, i, v)
    \/ \E d \in Observed : KRmdir(d)
    \/ \E d \in Observed : KMkdir(d)
Spec == Init /\ [][Next]_vars

-----------------------------------------------------------------------------
(* Properties of get_controllers (SpecParse) *)

\* C2: every three-column line contributes exactly one key per individual
\* comma-separated controller name of its second column, mapped to the line's
\* path column; an empty controller column contributes no key.
C2_OneKeyPerControllerName ==
    handle.state = "ok" =>
        LET ls == Lines(contents)
            Cols(i) == Split(ls[i], ":")
            Three == {i \in 1..Len(ls) : Len(Cols(i)) >= 3}
            Names(i) == {n \in {Split(Cols(i)[2], ",")[j] :
                                  j \in 1..Len(Split(Cols(i)[2], ","))} : n /= <<>>}
            LastWith(n) == CHOOSE i \in Three :
                               n \in Names(i) /\ \A j \in Three : n \in Names(j) => j <= i
        IN  /\ Keys(handle.controllers) = UNION {Names(i) : i \in Three}
            /\ \A e \in handle.controllers :
                   e.k \in UNION {Names(i) : i \in Three}
                       => e.v = PathNew(Cols(LastWith(e.k))[3])

\* C3: the path stored for a line's controller column is the whole remainder
\* of the line after the second colon, further colons included.
C3_PathIsRestAfterSecondColon ==
    handle.state = "ok" =>
        LET ls == Lines(contents)
            Cols(i) == Split(ls[i], ":")
            Three == {i \in 1..Len(ls) : Len(Cols(i)) >= 3}
            Rest(i) == SubSeq(ls[i], Len(Cols(i)[1]) + Len(Cols(i)[2]) + 3, Len(ls[i]))
        IN  \A i \in Three :
                (\A j \in Three : Cols(j)[2] = Cols(i)[2] => j <= i)
                    => /\ HasKey(handle.controllers, Cols(i)[2])
                       /\ Find(handle.controllers, Cols(i)[2]) = PathNew(Rest(i))

\* C4: parsing any readable content returns a map; empty lines and lines with
\* fewer than three columns are skipped and every well-formed line, before or
\* after them, has its entry.
C4_MalformedLinesSkipped ==
    handle.state /= "none" =>
        LET ls == Lines(contents)
            Cols(i) == Split(ls[i], ":")
            Three == {i \in 1..Len(ls) : Len(Cols(i)) >= 3}
            Names(i) == {n \in {Split(Cols(i)[2], ",")[j] :
                                  j \in 1..Len(Split(Cols(i)[2], ","))} : n /= <<>>}
        IN  /\ handle.state = "ok"
            /\ \A i \in Three : \/ HasKey(handle.controllers, Cols(i)[2])
                                \/ Names(i) \subseteq Keys(handle.controllers)

-----------------------------------------------------------------------------
(* Properties of CGroup::controller and path_cache (SpecHandle) *)

\* C5: controller(n) yields a view exactly when the placement map has n and
\* basepath/n/strip_leading_slash(placement[n]) is enumerable at that moment;
\* otherwise it returns None; the view's path is that composed directory.
C5_ViewIffPlacedAndEnumerable ==
    view.state /= "none" =>
        LET placed == HasKey(handle.controllers, asked)
            dir == PathPush(PathJoin(Basepath, asked),
                            [abs |-> FALSE,
                             comps |-> Find(handle.controllers, asked).comps])
            able == placed /\ dir \in DOMAIN fs /\ fs[dir].exists
        IN  /\ view.state = "some" <=> able
            /\ ~able => view.state = "absent"
            /\ view.state = "some" => view.path = dir

\* C8: a new view's cache has one entry (filename -> absolute path) for every
\* regular file of the directory, wherever it stands in the enumeration order.
C8_SeedsEveryRegularFile ==
    view.state = "some" =>
        view.cache =
            {[k |-> fs[view.path].ls[i].name,
              v |-> PathJoin(view.path, fs[view.path].ls[i].name)] :
                 i \in {j \in 1..Len(fs[view.path].ls) :
                            fs[view.path].ls[j].kind = "file"}}

-----------------------------------------------------------------------------
(* Properties of Controller::get (Spec) *)

\* what the existence probe of the last get found, by its last stat
LastProbe == IF sawIsFile /= "unset" THEN sawIsFile ELSE sawExists

\* C1: when the probe finds no regular file at the path (nothing, or a
\* directory), get returns absent and does not attempt the read.
C1_AbsentUnlessRegularFile ==
    LastProbe \in {"none", "dir"} =>
        /\ pc /= "read"
        /\ sawRead = Unset
        /\ pc = "idle" => ret = Absent

\* C6: get returns success only when the file exists at the moment of the read,
\* with the value that read produced; a get that finds the file or directory
\* gone returns absent or failure.
C6_SuccessOnlyFromLiveRead ==
    /\ ret.kind = "ok" => sawRead.kind = "file" /\ ret.data = sawRead.data
    /\ (pc = "idle" /\ ret.kind /= "none" /\ sawRead.kind \in {"unset", "none"})
           => ret.kind \in {"absent", "err"}
W6_RemovedBetweenProbeAndRead ==
    /\ pc = "idle" /\ sawExists = "file" /\ sawRead.kind = "none"
    /\ ret.kind = "err"

\* C7: a get whose probe passed and whose read failed returns failure; no get
\* changes the view's path, and a get that reads a readable file returns its
\* contents, also after earlier failures.
C7_FailureIsLocal ==
    /\ [](pc = "idle" /\ sawRead /= Unset /\ ~(sawRead.kind = "file" /\ sawRead.readable)
              => ret = Failure)
    /\ [](pc = "idle" /\ sawRead.kind = "file" /\ sawRead.readable
              => ret = Success(sawRead.data))
    /\ [][view.state = "some" => view'.state = "some" /\ view'.path = view.path]_vars
W7_SuccessAfterFailure ==
    /\ hadFailure /\ pc = "idle" /\ ret.kind = "ok"
    /\ view.path = MemoryDir

\* C9: gets never remove or change a cache entry, every get leaves its key in
\* the cache, a get for a cached key leaves the cache unchanged, and no get
\* enumerates the directory.
C9_CacheOnlyGrows ==
    /\ []((pc /= "idle" \/ ret.kind /= "none") => HasKey(view.cache, key))
    /\ [][view.state = "some"
              => view.cache \subseteq view'.cache /\ enumerations' = enumerations]_vars
    /\ [][(pc = "idle" /\ pc' = "exists" /\ HasKey(view.cache, key'))
              => view'.cache = view.cache]_vars
W9_CachedKeyAskedAgain ==
    /\ pc = "idle" /\ ret.kind /= "none" /\ wasCached
    /\ Cardinality(view.cache) = 2

\* C10: every cache entry maps its key to the view's directory joined with the
\* key, so get(k) has the outcome of probing and reading directory/k directly,
\* and a get that finds nothing at the path returns absent, on the first call
\* and on later ones.
C10_CacheIsPathJoin ==
    /\ \A e \in view.cache : e.v = PathJoin(view.path, e.k)
    /\ (view.state = "some" /\ pc = "idle") =>
           \A k \in GetKeys :
               LET e == Lookup(fs, PathJoin(view.path, k))
               IN  GetAtomic(view, fs, k) =
                       IF ~Exists(e) /\ ~IsFile(e) THEN Absent ELSE ReadToString(e)
    /\ (pc = "idle" /\ sawExists = "none" /\ sawIsFile = "none") => ret = Absent
W10_AbsentOnLaterCall ==
    /\ pc = "idle" /\ wasCached /\ ret = Absent
    /\ \E e \in view.cache : e.k /= key

=============================================================================
